---- MODULE Spec2Model ----
(***************************************************************************)
(* A model of the ralgo library: the disjoint set union (DjsuIndex /       *)
(* UnionFind), its rooted wrapper (DjsuRooted), the static graph, the      *)
(* depth-first search, the rooted tree view and the offline LCA.           *)
(* Vectors are functions over 0..len-1, as the code indexes them.          *)
(***************************************************************************)
EXTENDS Integers, Sequences, FiniteSets, TLC

VARIABLES
    comp,      \* which component of the library this behaviour exercises
    djsu,      \* DjsuIndex / UnionFind: [root, height, count]
    related,   \* history: equivalence closure of the pairs passed to union
    merges,    \* history: unions whose arguments were in different components
    rooted,    \* DjsuRooted: [djsu, root]
    input,     \* the caller's arguments: [n_vert, edges, root, queries]
    graph,     \* StaticGraph / GraphIndexed: [offset, neigh]
    dfs,       \* DFS: [source, parent, cycle_found, n_vert_reached]
    tree,      \* result of TreeIndexed::new: [status, root, offset, children, parent]
    lca,       \* LcaOffline::new in progress: its locals pairs, visited,
               \* djsu, result, the postorder being walked, the position
               \* i in it and the place pc in the loop body
    last,      \* the last call made: [op, a, b, ret] and, as history, what
               \* held when it was made: pre (n_components, or find(major)
               \* for DjsuRooted), same (a and b were already united) and,
               \* for DjsuIndex::find, depth (links from a to its
               \* representative)
    sort       \* mergesort in progress: the caller's array, its locals aux,
               \* step and swapped, and the place pc in the function

vars == <<comp, djsu, related, merges, rooted, input, graph, dfs, tree, lca, last,
         sort>>

\* ------------------------------------------------------------------ bounds
MaxSize == 4          \* largest DjsuIndex explored
MaxRooted == 3        \* largest DjsuRooted explored
MaxStatic == 3        \* StaticGraph::new alone: most vertices
MaxList == 3          \* StaticGraph::new alone: longest edge list
MaxVert == 4          \* DFS and TreeIndexed: most vertices
MaxEdges == 3         \* DFS and TreeIndexed: longest edge list
MaxTree == 3          \* largest tree given to LcaOffline::new
MaxQueries == 2       \* longest query batch explored
MaxLcaInput == 5      \* most vertices and queries together in one LcaOffline::new
MaxSortLen == 6       \* longest array given to mergesort
MaxSortVal == 2       \* array elements are drawn from 0 .. MaxSortVal
MaxFresh == 6         \* largest freshly constructed DSU examined

\* ----------------------------------------------------------------- helpers
Idx(n) == 0 .. (n - 1)

None == [op |-> "none"]

NoCall == [op |-> "new", a |-> 0, b |-> 0, ret |-> 0, pre |-> 0, same |-> TRUE]

\* The equivalence relation R, an equivalence closure already, closed
\* again after the pair <<a, b>> is added: the classes of a and b become one.
Unite(R, a, b) ==
    LET C == {x \in {p[1] : p \in R} : <<a, x>> \in R \/ <<b, x>> \in R}
    IN  R \cup (C \X C)

\* ------------------------------------------------------- DjsuIndex (DSU)
\* new with the root vector filled like the height vector
DjsuIndex_new_zeroed(count) ==
    [root |-> [i \in Idx(count) |-> 0],
     height |-> [i \in Idx(count) |-> 0],
     count |-> count]

DjsuIndex_new(count) ==
    [root |-> [i \in Idx(count) |-> i],
     height |-> [i \in Idx(count) |-> 0],
     count |-> count]

n_components(d) == d.count

\* First loop of find: walk to the representative without mutation.
RECURSIVE FindWalk(_, _)
FindWalk(r, x) == IF r[x] # x THEN FindWalk(r, r[x]) ELSE x

\* the second loop of find stopping after its first iteration
FindCompress_once(r, ind, rep) ==
    IF r[ind] # ind THEN [r EXCEPT ![ind] = rep] ELSE r

\* Second loop of find: re-walk from ind, pointing every node at rep.
RECURSIVE FindCompress(_, _, _)
FindCompress(r, ind, rep) ==
    IF r[ind] # ind
    THEN FindCompress([r EXCEPT ![ind] = rep], r[ind], rep)
    ELSE r

DjsuIndex_find(d, ind) ==
    LET rep == FindWalk(d.root, ind)
    IN  [d |-> [d EXCEPT !.root = FindCompress(d.root, ind, rep)], ret |-> rep]

DjsuIndex_connected(d, left, right) ==
    LET f1 == DjsuIndex_find(d, left)
        f2 == DjsuIndex_find(f1.d, right)
    IN  [d |-> f2.d, ret |-> (f1.ret = f2.ret)]

\* union that links the arguments themselves, not their representatives
DjsuIndex_union_nofind(d, left0, right0) ==
    LET f1 == DjsuIndex_find(d, left0)
        f2 == DjsuIndex_find(f1.d, right0)
        d2 == f2.d
        d3 == [d2 EXCEPT !.count = d2.count - 1]
    IN  IF f1.ret = f2.ret THEN [d |-> d2, ret |-> f1.ret]
        ELSE [d |-> [d3 EXCEPT !.root[right0] = left0], ret |-> f1.ret]

\* union that decrements the count before the already-connected test
DjsuIndex_union_eager(d, left0, right0) ==
    LET f1 == DjsuIndex_find(d, left0)
        f2 == DjsuIndex_find(f1.d, right0)
        left == f1.ret
        right == f2.ret
        d3 == [f2.d EXCEPT !.count = f2.d.count - 1]
    IN  IF left = right THEN [d |-> d3, ret |-> left]
        ELSE IF d3.height[left] < d3.height[right]
             THEN [d |-> [d3 EXCEPT !.root[left] = right], ret |-> right]
        ELSE IF d3.height[left] > d3.height[right]
             THEN [d |-> [d3 EXCEPT !.root[right] = left], ret |-> left]
        ELSE [d |-> [d3 EXCEPT !.root[right] = left,
                               !.height[right] = d3.height[right] + 1],
              ret |-> left]

\* union that never decrements the count
DjsuIndex_union_nocount(d, left0, right0) ==
    LET f1 == DjsuIndex_find(d, left0)
        f2 == DjsuIndex_find(f1.d, right0)
        left == f1.ret
        right == f2.ret
        d2 == f2.d
    IN  IF left = right THEN [d |-> d2, ret |-> left]
        ELSE IF d2.height[left] < d2.height[right]
             THEN [d |-> [d2 EXCEPT !.root[left] = right], ret |-> right]
        ELSE IF d2.height[left] > d2.height[right]
             THEN [d |-> [d2 EXCEPT !.root[right] = left], ret |-> left]
        ELSE [d |-> [d2 EXCEPT !.root[right] = left,
                               !.height[right] = d2.height[right] + 1],
              ret |-> left]

\* union without the early return for an already connected pair
DjsuIndex_union_noreturn(d, left0, right0) ==
    LET f1 == DjsuIndex_find(d, left0)
        f2 == DjsuIndex_find(f1.d, right0)
        left == f1.ret
        right == f2.ret
        d3 == [f2.d EXCEPT !.count = f2.d.count - 1]
    IN  IF d3.height[left] < d3.height[right]
        THEN [d |-> [d3 EXCEPT !.root[left] = right], ret |-> right]
        ELSE IF d3.height[left] > d3.height[right]
        THEN [d |-> [d3 EXCEPT !.root[right] = left], ret |-> left]
        ELSE [d |-> [d3 EXCEPT !.root[right] = left,
                               !.height[right] = d3.height[right] + 1],
              ret |-> left]

DjsuIndex_union(d, left0, right0) ==
    LET f1 == DjsuIndex_find(d, left0)
        f2 == DjsuIndex_find(f1.d, right0)
        left == f1.ret
        right == f2.ret
        d2 == f2.d
        d3 == [d2 EXCEPT !.count = d2.count - 1]
    IN  IF left = right THEN [d |-> d2, ret |-> left]
        ELSE IF d3.height[left] < d3.height[right]
             THEN [d |-> [d3 EXCEPT !.root[left] = right], ret |-> right]
        ELSE IF d3.height[left] > d3.height[right]
             THEN [d |-> [d3 EXCEPT !.root[right] = left], ret |-> left]
        ELSE [d |-> [d3 EXCEPT !.root[right] = left,
                               !.height[right] = d3.height[right] + 1],
              ret |-> left]

\* ------------------------------------------------------------ DjsuRooted
DjsuRooted_new(count) ==
    [djsu |-> DjsuIndex_new(count), root |-> [i \in Idx(count) |-> i]]

DjsuRooted_n_components(s) == n_components(s.djsu)

DjsuRooted_find(s, ind) ==
    LET f == DjsuIndex_find(s.djsu, ind)
    IN  [d |-> [s EXCEPT !.djsu = f.d], ret |-> s.root[f.ret]]

DjsuRooted_connected(s, left, right) ==
    LET c == DjsuIndex_connected(s.djsu, left, right)
    IN  [d |-> [s EXCEPT !.djsu = c.d], ret |-> c.ret]

DjsuRooted_union(s, major, minor) ==
    LET u == DjsuIndex_union(s.djsu, major, minor)
        repr == u.ret
        newroot == [s.root EXCEPT ![repr] = s.root[major]]
    IN  [d |-> [djsu |-> u.d, root |-> newroot], ret |-> newroot[repr]]

\* ----------------------------------------- StaticGraph / GraphIndexed
Len0(f) == Cardinality(DOMAIN f)

Zeros(n) == [i \in Idx(n) |-> 0]

\* Option<usize>: None is the empty sequence, Some(x) is <<x>>.
NoneOpt == <<>>

Some(x) == <<x>>

\* First loop of new: the degree histogram, shifted by one.
RECURSIVE CountDegrees(_, _, _, _)
CountDegrees(offset, n_vert, edges, k) ==
    IF k > Len(edges) THEN offset
    ELSE LET u == edges[k][1]
             v == edges[k][2]
             o1 == IF u < n_vert - 1 THEN [offset EXCEPT ![u + 1] = @ + 1]
                   ELSE offset
             o2 == IF v < n_vert - 1 THEN [o1 EXCEPT ![v + 1] = @ + 1]
                   ELSE o1
         IN  CountDegrees(o2, n_vert, edges, k + 1)

\* for i in 2 .. n { offset[i] += offset[i-1] }
RECURSIVE PrefixSums(_, _, _)
PrefixSums(offset, i, n) ==
    IF i >= n THEN offset
    ELSE PrefixSums([offset EXCEPT ![i] = @ + offset[i - 1]], i + 1, n)

\* Last loop of new: scatter both halves of every edge through the write
\* cursors pos.
\* the scatter loop without advancing the cursor of the second endpoint
RECURSIVE PlaceEdges_stuck(_, _, _, _)
PlaceEdges_stuck(pos, neigh, edges, k) ==
    IF k > Len(edges) THEN neigh
    ELSE LET u == edges[k][1]
             v == edges[k][2]
             n1 == [neigh EXCEPT ![pos[u]] = v]
             p1 == [pos EXCEPT ![u] = @ + 1]
             n2 == [n1 EXCEPT ![p1[v]] = u]
         IN  PlaceEdges_stuck(p1, n2, edges, k + 1)

RECURSIVE PlaceEdges(_, _, _, _)
PlaceEdges(pos, neigh, edges, k) ==
    IF k > Len(edges) THEN neigh
    ELSE LET u == edges[k][1]
             v == edges[k][2]
             n1 == [neigh EXCEPT ![pos[u]] = v]
             p1 == [pos EXCEPT ![u] = @ + 1]
             n2 == [n1 EXCEPT ![p1[v]] = u]
             p2 == [p1 EXCEPT ![v] = @ + 1]
         IN  PlaceEdges(p2, n2, edges, k + 1)

StaticGraph_new(n_vert, edges) ==
    LET counted == CountDegrees(Zeros(n_vert), n_vert, edges, 1)
        offset == PrefixSums(counted, 2, n_vert)
    IN  [offset |-> offset,
         neigh |-> PlaceEdges(offset, Zeros(2 * Len(edges)), edges, 1)]

n_vert(g) == Len0(g.offset)

n_edges(g) == Len0(g.neigh) \div 2

\* The slice arr[lo .. hi) as a list.
Slice(arr, lo, hi) == [k \in 1 .. (hi - lo) |-> arr[lo + k - 1]]

neighbors(g, vert) ==
    IF vert < Len0(g.offset) - 1
    THEN Slice(g.neigh, g.offset[vert], g.offset[vert + 1])
    ELSE Slice(g.neigh, g.offset[vert], Len0(g.neigh))

\* ------------------------------------------------------------------ DFS
RECURSIVE DFS_run(_, _, _)
RECURSIVE DFS_run_loop(_, _, _, _)
\* the loop of run flagging every visited neighbour, the parent included
RECURSIVE DFS_run_loop_noparent(_, _, _, _)
DFS_run_loop_noparent(g, st, source, k) ==
    LET ns == neighbors(g, source)
    IN  IF k > Len(ns) THEN st
        ELSE LET neigh == ns[k]
             IN  IF ~st.visited[neigh]
                 THEN DFS_run_loop_noparent(g,
                          DFS_run(g, [st EXCEPT !.parent[neigh] = source], neigh),
                          source, k + 1)
                 ELSE DFS_run_loop_noparent(g, [st EXCEPT !.cycle_found = TRUE],
                                            source, k + 1)

\* The body of the for loop of run, from the k-th neighbour on.
DFS_run_loop(g, st, source, k) ==
    LET ns == neighbors(g, source)
    IN  IF k > Len(ns) THEN st
        ELSE LET neigh == ns[k]
             IN  IF ~st.visited[neigh]
                 THEN DFS_run_loop(g,
                          DFS_run(g, [st EXCEPT !.parent[neigh] = source], neigh),
                          source, k + 1)
                 ELSE IF neigh # st.parent[source]
                 THEN DFS_run_loop(g, [st EXCEPT !.cycle_found = TRUE],
                                   source, k + 1)
                 ELSE DFS_run_loop(g, st, source, k + 1)

DFS_run(g, st, source) ==
    DFS_run_loop(g, [st EXCEPT !.visited[source] = TRUE,
                               !.n_vert_reached = @ + 1], source, 1)

DFS_new(g, source) ==
    LET st == DFS_run(g, [parent |-> [i \in Idx(n_vert(g)) |-> i],
                          cycle_found |-> FALSE,
                          n_vert_reached |-> 0,
                          visited |-> [i \in Idx(n_vert(g)) |-> FALSE]], source)
    IN  [source |-> source, parent |-> st.parent,
         cycle_found |-> st.cycle_found, n_vert_reached |-> st.n_vert_reached]

DFS_parent(d, node) ==
    IF d.parent[node] = node THEN NoneOpt ELSE Some(d.parent[node])

\* is_reached without the special case of the source
is_reached_nosource(d, node) == d.parent[node] # node

is_reached(d, node) == (node = d.source) \/ (d.parent[node] # node)

cycle_found(d) == d.cycle_found

n_vert_reached(d) == d.n_vert_reached

\* ---------------------------------------------------------- TreeIndexed
\* DFS::extract_parent hands over the parent vector of the search.
extract_parent(d) == d.parent

\* the counting loop writing offset[vert] instead of offset[vert+1]
RECURSIVE CountChildren_noshift(_, _, _, _, _)
CountChildren_noshift(offset, g, d, vert, k) ==
    IF vert >= n_vert(g) - 1 THEN offset
    ELSE LET ns == neighbors(g, vert)
         IN  IF k > Len(ns) THEN CountChildren_noshift(offset, g, d, vert + 1, 1)
             ELSE IF DFS_parent(d, vert) # Some(ns[k])
             THEN CountChildren_noshift([offset EXCEPT ![vert] = @ + 1],
                                        g, d, vert, k + 1)
             ELSE CountChildren_noshift(offset, g, d, vert, k + 1)

\* First loop of new: offset[vert+1] counts the neighbours of vert that
\* are not its parent, for vert in 0 .. n_vert-1.
RECURSIVE CountChildren(_, _, _, _, _)
CountChildren(offset, g, d, vert, k) ==
    IF vert >= n_vert(g) - 1 THEN offset
    ELSE LET ns == neighbors(g, vert)
         IN  IF k > Len(ns) THEN CountChildren(offset, g, d, vert + 1, 1)
             ELSE IF DFS_parent(d, vert) # Some(ns[k])
             THEN CountChildren([offset EXCEPT ![vert + 1] = @ + 1],
                                g, d, vert, k + 1)
             ELSE CountChildren(offset, g, d, vert, k + 1)

\* Last loop of new: children[pos[vert]] = neigh; an index past the end of
\* children panics.
RECURSIVE PlaceChildren(_, _, _, _, _)
PlaceChildren(st, g, d, vert, k) ==
    IF st.panic \/ vert >= n_vert(g) THEN st
    ELSE LET ns == neighbors(g, vert)
         IN  IF k > Len(ns) THEN PlaceChildren(st, g, d, vert + 1, 1)
             ELSE IF DFS_parent(d, vert) # Some(ns[k])
             THEN IF st.pos[vert] >= Len0(st.children)
                  THEN [st EXCEPT !.panic = TRUE]
                  ELSE PlaceChildren(
                           [st EXCEPT !.children[st.pos[vert]] = ns[k],
                                      !.pos[vert] = @ + 1],
                           g, d, vert, k + 1)
             ELSE PlaceChildren(st, g, d, vert, k + 1)

\* new rejecting cycles only, not unreached vertices
TreeIndexed_new_cycleonly(g, root) ==
    LET d == DFS_new(g, root)
        counted == CountChildren(Zeros(n_vert(g)), g, d, 0, 1)
        offset == PrefixSums(counted, 2, n_vert(g))
        placed == PlaceChildren([pos |-> offset,
                                 children |-> Zeros(n_edges(g)),
                                 panic |-> FALSE], g, d, 0, 1)
    IN  IF cycle_found(d)
        THEN [status |-> "Err"]
        ELSE IF placed.panic THEN [status |-> "Panic"]
        ELSE [status |-> "Ok", root |-> root, offset |-> offset,
              children |-> placed.children, parent |-> extract_parent(d)]

TreeIndexed_new(g, root) ==
    LET d == DFS_new(g, root)
        counted == CountChildren(Zeros(n_vert(g)), g, d, 0, 1)
        offset == PrefixSums(counted, 2, n_vert(g))
        placed == PlaceChildren([pos |-> offset,
                                 children |-> Zeros(n_edges(g)),
                                 panic |-> FALSE], g, d, 0, 1)
    IN  IF cycle_found(d) \/ n_vert_reached(d) < n_vert(g)
        THEN [status |-> "Err"]
        ELSE IF placed.panic THEN [status |-> "Panic"]
        ELSE [status |-> "Ok", root |-> root, offset |-> offset,
              children |-> placed.children, parent |-> extract_parent(d)]

TreeIndexed_root(t) == t.root

TreeIndexed_n_vert(t) == Len0(t.offset)

TreeIndexed_n_edges(t) == Len0(t.children)

children(t, node) ==
    IF node < Len0(t.offset) - 1
    THEN Slice(t.children, t.offset[node], t.offset[node + 1])
    ELSE Slice(t.children, t.offset[node], Len0(t.children))

TreeIndexed_parent(t, node) ==
    IF node = t.root THEN NoneOpt ELSE Some(t.parent[node])

\* TreeIndexed::postorder: every child's subtree, in children order, then
\* the vertex itself.
RECURSIVE postorder_from(_, _)
RECURSIVE postorder_children(_, _, _)
postorder_children(t, node, k) ==
    LET cs == children(t, node)
    IN  IF k > Len(cs) THEN <<>>
        ELSE postorder_from(t, cs[k]) \o postorder_children(t, node, k + 1)

postorder_from(t, node) == postorder_children(t, node, 1) \o <<node>>

postorder(t) == postorder_from(t, t.root)

\* ----------------------------------------------------------- LcaOffline
\* for &(v, u) in queries { pairs[v].push(u); pairs[u].push(v); }
RECURSIVE BuildPairs(_, _, _)
BuildPairs(pairs, queries, k) ==
    IF k > Len(queries) THEN pairs
    ELSE LET v == queries[k][1]
             u == queries[k][2]
             p1 == [pairs EXCEPT ![v] = Append(@, u)]
             p2 == [p1 EXCEPT ![u] = Append(@, v)]
         IN  BuildPairs(p2, queries, k + 1)

\* order that never swaps
order_unswapped(x, y) == <<x, y>>

order(x, y) == IF x < y THEN <<x, y>> ELSE <<y, x>>

\* HashMap::insert
Insert(map, key, val) ==
    [k \in DOMAIN map \cup {key} |-> IF k = key THEN val ELSE map[k]]

\* The state of new just before its main loop.
LcaOffline_start(t, queries) ==
    [pairs |-> BuildPairs([v \in Idx(TreeIndexed_n_vert(t)) |-> <<>>], queries, 1),
     visited |-> [v \in Idx(TreeIndexed_n_vert(t)) |-> FALSE],
     djsu |-> DjsuRooted_new(TreeIndexed_n_vert(t)),
     result |-> <<>>,
     postorder |-> postorder(t),
     i |-> 1,
     pc |-> "loop"]

\* for &other in &pairs[vert] { if visited[other] { result.insert(...) } }
RECURSIVE AnswerPending(_, _, _)
AnswerPending(st, vert, k) ==
    IF k > Len(st.pairs[vert]) THEN st
    ELSE LET other == st.pairs[vert][k]
             f == DjsuRooted_find(st.djsu, other)
         IN  IF st.visited[other]
             THEN AnswerPending([st EXCEPT !.djsu = f.d,
                                           !.result = Insert(@, order(vert, other), f.ret)],
                                vert, k + 1)
             ELSE AnswerPending(st, vert, k + 1)

\* First half of the loop body: mark vert visited, answer its pending pairs.
LcaOffline_visit(st, vert) ==
    AnswerPending([st EXCEPT !.visited[vert] = TRUE], vert, 1)

\* the union with major and minor exchanged
LcaOffline_union_swapped(st, t, vert) ==
    IF vert # TreeIndexed_root(t)
    THEN [st EXCEPT !.djsu =
              DjsuRooted_union(@, vert, TreeIndexed_parent(t, vert)[1]).d]
    ELSE st

\* Second half of the loop body: union vert into its parent.
LcaOffline_union(st, t, vert) ==
    IF vert # TreeIndexed_root(t)
    THEN [st EXCEPT !.djsu =
              DjsuRooted_union(@, TreeIndexed_parent(t, vert)[1], vert).d]
    ELSE st

\* the loop body with the union made before the pending pairs are answered
LcaOffline_step_unionfirst(st, t) ==
    LET vert == st.postorder[st.i]
        done == LcaOffline_visit(LcaOffline_union(st, t, vert), vert)
    IN  [done EXCEPT !.i = @ + 1,
                     !.pc = IF st.i + 1 > Len(st.postorder) THEN "done"
                            ELSE "loop"]

\* The body of the main loop for the vertex at position i of the postorder.
LcaOffline_step(st, t) ==
    LET vert == st.postorder[st.i]
        done == LcaOffline_union(LcaOffline_visit(st, vert), t, vert)
    IN  [done EXCEPT !.i = @ + 1,
                     !.pc = IF st.i + 1 > Len(st.postorder) THEN "done"
                            ELSE "loop"]

Ok(x) == <<"Ok", x>>

Err == <<"Err">>

ancestor(result, v, u) ==
    IF order(v, u) \in DOMAIN result THEN Ok(result[order(v, u)]) ELSE Err

\* ------------------------------------------------------------ mergesort
\* Slices are lists; an iterator is the list of what it has yet to yield.
Min(a, b) == IF a < b THEN a ELSE b

\* slice.chunks(size) yields a k-th chunk (counting from 0) ...
HasChunk(xs, size, k) == k * size < Len(xs)

\* ... which is short when it is the last one.
Chunk(xs, size, k) == SubSeq(xs, k * size + 1, Min((k + 1) * size, Len(xs)))

\* The list xs with ys written over it from position start on.
Overwrite(xs, start, ys) ==
    [i \in 1 .. Len(xs) |->
        IF i >= start /\ i < start + Len(ys) THEN ys[i - start + 1] ELSE xs[i]]

\* x written to the next output slot, before what the rest of the loop writes
Emit(x, rest) == [out |-> <<x>> \o rest.out, panic |-> rest.panic]

\* merge whose last branch writes the right element but advances the left
\* iterator
RECURSIVE merge_wrongiter(_, _, _)
merge_wrongiter(first, second, n) ==
    IF n = 0 THEN [out |-> <<>>, panic |-> FALSE]
    ELSE IF first = <<>>
    THEN IF second = <<>> THEN [out |-> <<>>, panic |-> TRUE]
         ELSE Emit(Head(second), merge_wrongiter(first, Tail(second), n - 1))
    ELSE IF second = <<>>
    THEN Emit(Head(first), merge_wrongiter(Tail(first), second, n - 1))
    ELSE IF Head(first) < Head(second)
    THEN Emit(Head(first), merge_wrongiter(Tail(first), second, n - 1))
    ELSE Emit(Head(second), merge_wrongiter(Tail(first), second, n - 1))

\* merge(first, second, output): fills the n slots of output; unwrap of an
\* exhausted iterator panics.
RECURSIVE merge(_, _, _)
merge(first, second, n) ==
    IF n = 0 THEN [out |-> <<>>, panic |-> FALSE]
    ELSE IF first = <<>>
    THEN IF second = <<>> THEN [out |-> <<>>, panic |-> TRUE]
         ELSE Emit(Head(second), merge(first, Tail(second), n - 1))
    ELSE IF second = <<>>
    THEN Emit(Head(first), merge(Tail(first), second, n - 1))
    ELSE IF Head(first) < Head(second)
    THEN Emit(Head(first), merge(Tail(first), second, n - 1))
    ELSE Emit(Head(second), merge(first, Tail(second), n - 1))

\* merge_intervals(input, output, step), from the p-th pair of chunks on:
\* the loop breaks as soon as input has no first or no second chunk left.
RECURSIVE merge_intervals(_, _, _, _)
merge_intervals(in, output, step, p) ==
    IF ~HasChunk(in, step, 2 * p) THEN [out |-> output, panic |-> FALSE]
    ELSE IF ~HasChunk(in, step, 2 * p + 1) THEN [out |-> output, panic |-> FALSE]
    ELSE IF ~HasChunk(output, 2 * step, p) THEN [out |-> output, panic |-> TRUE]
    ELSE LET first == Chunk(in, step, 2 * p)
             second == Chunk(in, step, 2 * p + 1)
             write_to == Chunk(output, 2 * step, p)
             m == merge(first, second, Len(write_to))
             written == Overwrite(output, p * 2 * step + 1, m.out)
         IN  IF m.panic THEN [out |-> written, panic |-> TRUE]
             ELSE merge_intervals(in, written, step, p + 1)

\* mergesort on entry, before its first statement.
mergesort_start(array) ==
    [array |-> array, aux |-> <<>>, step |-> 1, swapped |-> FALSE,
     pc |-> "entry"]

\* The early return, or the copy of array into aux.
mergesort_enter(st) ==
    IF Len(st.array) < 2 THEN [st EXCEPT !.pc = "done"]
    ELSE [st EXCEPT !.aux = st.array, !.pc = "loop"]

\* One iteration of the while loop: primary is array until the buffers are
\* swapped, and aux after that.
mergesort_pass(st) ==
    LET primary == IF st.swapped THEN st.aux ELSE st.array
        secondary == IF st.swapped THEN st.array ELSE st.aux
        m == merge_intervals(primary, secondary, st.step, 0)
        written == IF st.swapped THEN [st EXCEPT !.array = m.out]
                   ELSE [st EXCEPT !.aux = m.out]
    IN  IF m.panic THEN [written EXCEPT !.pc = "panic"]
        ELSE [written EXCEPT !.swapped = ~st.swapped, !.step = 2 * st.step]

\* if swapped { secondary.clone_from_slice(primary) }: secondary is array.
mergesort_finish(st) ==
    IF st.swapped THEN [st EXCEPT !.array = st.aux, !.pc = "done"]
    ELSE [st EXCEPT !.pc = "done"]

\* ------------------------------------------- graph theory (reference)
\* The undirected edges of an edge list, each as the set of its endpoints.
EdgeSet(edges) == {{edges[k][1], edges[k][2]} : k \in 1 .. Len(edges)}

\* No self-loop and no edge given twice (in either orientation).
Simple(edges) ==
    /\ \A k \in 1 .. Len(edges) : edges[k][1] # edges[k][2]
    /\ \A j, k \in 1 .. Len(edges) :
           j # k => {edges[j][1], edges[j][2]} # {edges[k][1], edges[k][2]}

RECURSIVE Reach(_, _)
Reach(S, E) ==
    LET S2 == S \cup {w \in UNION E : \E e \in E : w \in e /\ e \cap S # {}}
    IN  IF S2 = S THEN S ELSE Reach(S2, E)

\* The connected component of v.
Component(v, edges) == Reach({v}, EdgeSet(edges))

\* A connected simple graph has a cycle iff it has at least as many edges
\* as vertices.
ComponentHasCycle(v, edges) ==
    LET C == Component(v, edges)
    IN  Cardinality({e \in EdgeSet(edges) : e \subseteq C}) >= Cardinality(C)

Connected_graph(n, edges) == Component(0, edges) = Idx(n)

HasCycle(n, edges) == \E v \in Idx(n) : ComponentHasCycle(v, edges)

IsTree(n, edges) == Connected_graph(n, edges) /\ ~HasCycle(n, edges)

\* Following the parent vector from v arrives at target within fuel steps.
RECURSIVE ChainReaches(_, _, _, _)
ChainReaches(par, v, target, fuel) ==
    IF v = target THEN TRUE
    ELSE IF fuel = 0 THEN FALSE
    ELSE ChainReaches(par, par[v], target, fuel - 1)

\* The elements of a list.
Range(xs) == {xs[k] : k \in 1 .. Len(xs)}

\* The permutations of a list.
Perms(xs) ==
    {[k \in 1 .. Len(xs) |-> xs[f[k]]] :
        f \in {g \in [1 .. Len(xs) -> 1 .. Len(xs)] :
                 \A i, j \in 1 .. Len(xs) : i # j => g[i] # g[j]}}

\* How often x occurs in the list xs.
Occurrences(xs, x) == Cardinality({k \in 1 .. Len(xs) : xs[k] = x})

\* How often the edge list makes w a neighbour of v.
Incidences(edges, v, w) ==
    Cardinality({k \in 1 .. Len(edges) : edges[k][1] = v /\ edges[k][2] = w})
    + Cardinality({k \in 1 .. Len(edges) : edges[k][2] = v /\ edges[k][1] = w})

\* Sequences over S of length at most n.
SeqUpTo(S, n) == UNION {[1 .. k -> S] : k \in 0 .. n}

\* ===================================== specification: StaticGraph::new
InitStatic ==
    /\ comp = "static"
    /\ \E n \in 1 .. MaxStatic :
         \E es \in SeqUpTo(Idx(n) \X Idx(n), MaxList) :
             input = [n_vert |-> n, edges |-> es, root |-> 0, queries |-> <<>>]
    /\ graph = None /\ dfs = None /\ tree = None /\ lca = None
    /\ djsu = None /\ rooted = None /\ related = {} /\ merges = 0
    /\ last = NoCall
    /\ sort = None

\* StaticGraph::new(n_vert, edges)
GraphNew ==
    /\ comp = "static" /\ graph = None
    /\ graph' = StaticGraph_new(input.n_vert, input.edges)
    /\ UNCHANGED <<comp, djsu, related, merges, rooted, input, dfs, tree, lca, last, sort>>

NextStatic == GraphNew

SpecStatic == InitStatic /\ [][NextStatic]_vars

\* An edge list with every edge written smaller endpoint first.
Oriented(edges) ==
    [k \in 1 .. Len(edges) |->
        IF edges[k][1] <= edges[k][2] THEN edges[k]
        ELSE <<edges[k][2], edges[k][1]>>]

\* ================================== specification: DFS and TreeIndexed
\* The graph is built from an edge list written smaller endpoint first;
\* StaticGraph::new builds the same arrays for either orientation of an
\* edge (OrientationIrrelevant).
InitGraph ==
    /\ comp = "graph"
    /\ \E n \in 1 .. MaxVert :
         \E es \in SeqUpTo({e \in Idx(n) \X Idx(n) : e[1] <= e[2]}, MaxEdges) :
             /\ input = [n_vert |-> n, edges |-> es, root |-> 0, queries |-> <<>>]
             /\ graph = StaticGraph_new(n, es)
    /\ dfs = None /\ tree = None /\ lca = None
    /\ djsu = None /\ rooted = None /\ related = {} /\ merges = 0
    /\ last = NoCall
    /\ sort = None

\* DFS::new(graph, source)
DfsNew(source) ==
    /\ comp = "graph" /\ dfs = None /\ tree = None
    /\ dfs' = DFS_new(graph, source)
    /\ input' = [input EXCEPT !.root = source]
    /\ UNCHANGED <<comp, djsu, related, merges, rooted, graph, tree, lca, last, sort>>

\* TreeIndexed::new(graph, root)
TreeNew(root) ==
    /\ comp = "graph" /\ dfs = None /\ tree = None
    /\ tree' = TreeIndexed_new(graph, root)
    /\ input' = [input EXCEPT !.root = root]
    /\ UNCHANGED <<comp, djsu, related, merges, rooted, graph, dfs, lca, last, sort>>

NextGraph ==
    \/ \E source \in Idx(input.n_vert) : DfsNew(source)
    \/ \E root \in Idx(input.n_vert) : TreeNew(root)

SpecGraph == InitGraph /\ [][NextGraph]_vars

\* StaticGraph::new builds the same arrays whichever way round each edge is
\* written, which is why InitGraph and Trees draw one orientation only.
OrientationIrrelevant ==
    (comp = "static" /\ graph # None) =>
        graph = StaticGraph_new(input.n_vert, Oriented(input.edges))

\* C10: StaticGraph::new(n, edges) has n_vert() == n, n_edges() == the number
\* of edges given, and neighbors(v) is, as a multiset, exactly the other
\* endpoints of the edges incident to v, for every v (last vertex and
\* isolated vertices included).
GraphHoldsEdges ==
    (comp = "static" /\ graph # None) =>
        /\ n_vert(graph) = input.n_vert
        /\ n_edges(graph) = Len(input.edges)
        /\ \A v \in Idx(input.n_vert) :
              /\ \A w \in Idx(input.n_vert) :
                    Occurrences(neighbors(graph, v), w)
                        = Incidences(input.edges, v, w)
              /\ Range(neighbors(graph, v)) \subseteq Idx(input.n_vert)

\* a built graph whose last vertex has two neighbours and which has an
\* isolated vertex
GraphWitness ==
    /\ comp = "static" /\ graph # None
    /\ input.n_vert >= 3
    /\ Len(neighbors(graph, input.n_vert - 1)) >= 2
    /\ \E v \in Idx(input.n_vert) : Len(neighbors(graph, v)) = 0

\* C9: after DFS::new(graph, source), is_reached holds exactly on the
\* component of source, n_vert_reached() is its size, parent(v) is None
\* exactly for source and for unreached vertices, and every other parent is
\* a reached neighbour whose parent chain ends at source.
DfsReachesComponent ==
    (comp = "graph" /\ dfs # None) =>
        LET C == Component(input.root, input.edges)
        IN  /\ \A v \in Idx(input.n_vert) :
                  /\ is_reached(dfs, v) = (v \in C)
                  /\ (DFS_parent(dfs, v) = NoneOpt)
                        = (v = input.root \/ ~is_reached(dfs, v))
                  /\ DFS_parent(dfs, v) # NoneOpt =>
                        LET p == DFS_parent(dfs, v)[1]
                        IN  /\ is_reached(dfs, p)
                            /\ {p, v} \in EdgeSet(input.edges)
                            /\ ChainReaches(dfs.parent, v, input.root,
                                            input.n_vert)
            /\ n_vert_reached(dfs) = Cardinality(C)
            /\ dfs.source = input.root

\* a search that reached three vertices, one through another, and left a
\* vertex unreached
DfsWitness ==
    /\ comp = "graph" /\ dfs # None
    /\ n_vert_reached(dfs) = 3 /\ input.n_vert = 4
    /\ \E v \in Idx(input.n_vert) :
          /\ DFS_parent(dfs, v) # NoneOpt
          /\ DFS_parent(dfs, DFS_parent(dfs, v)[1]) # NoneOpt

\* C8: on a simple graph cycle_found() is true exactly when the component of
\* source contains a cycle, whatever the order of the edge list (and so of
\* the neighbour lists).
CycleFoundIffCycle ==
    (comp = "graph" /\ dfs # None /\ Simple(input.edges)) =>
        /\ cycle_found(dfs) = ComponentHasCycle(input.root, input.edges)
        /\ \A es \in Perms(input.edges) :
              cycle_found(DFS_new(StaticGraph_new(input.n_vert, es), input.root))
                  = cycle_found(dfs)

\* a cycle was found in the source's component
CycleWitness ==
    /\ comp = "graph" /\ dfs # None /\ Simple(input.edges)
    /\ cycle_found(dfs) /\ n_vert_reached(dfs) = 3

\* a cycle out of reach of the source is not reported
CycleElsewhereWitness ==
    /\ comp = "graph" /\ dfs # None /\ Simple(input.edges)
    /\ ~cycle_found(dfs) /\ HasCycle(input.n_vert, input.edges)

\* C6: on a simple graph TreeIndexed::new returns Err exactly when the graph
\* has a cycle or is not connected, and Ok on every tree, for every root.
TreeErrIffNotTree ==
    (comp = "graph" /\ tree # None /\ Simple(input.edges)) =>
        /\ (tree.status = "Err")
              = (HasCycle(input.n_vert, input.edges)
                   \/ ~Connected_graph(input.n_vert, input.edges))
        /\ IsTree(input.n_vert, input.edges) => tree.status = "Ok"

\* Err for a connected graph with a cycle
TreeErrWitness ==
    /\ comp = "graph" /\ tree # None /\ Simple(input.edges)
    /\ tree.status = "Err"
    /\ Connected_graph(input.n_vert, input.edges)

\* Err for an acyclic graph that is not connected
TreeErrDisconnectedWitness ==
    /\ comp = "graph" /\ tree # None /\ Simple(input.edges)
    /\ tree.status = "Err" /\ input.n_vert = 4 /\ Len(input.edges) = 2
    /\ ~HasCycle(input.n_vert, input.edges)

\* C7: a tree that was built has the graph's vertices and one edge fewer,
\* no parent exactly at the root, every non-root vertex exactly once in the
\* children of its parent and of nobody else, children(v) being the
\* neighbours of v other than its parent, and every parent chain ending at
\* the root.
TreeShape ==
    (comp = "graph" /\ tree # None /\ tree.status = "Ok") =>
        LET V == Idx(input.n_vert)
        IN  /\ TreeIndexed_n_vert(tree) = n_vert(graph)
            /\ TreeIndexed_n_edges(tree) = TreeIndexed_n_vert(tree) - 1
            /\ TreeIndexed_root(tree) = input.root
            /\ \A v \in V :
                  (TreeIndexed_parent(tree, v) = NoneOpt) = (v = input.root)
            /\ \A v, c \in V :
                  /\ (c \in Range(children(tree, v)))
                        = (TreeIndexed_parent(tree, c) = Some(v))
                  /\ Occurrences(children(tree, v), c) <= 1
            /\ \A c \in V \ {input.root} :
                  Cardinality({v \in V : c \in Range(children(tree, v))}) = 1
            /\ \A v \in V :
                  Range(children(tree, v))
                      = Range(neighbors(graph, v))
                          \ Range(TreeIndexed_parent(tree, v))
            /\ \A v \in V :
                  ChainReaches(tree.parent, v, input.root, input.n_vert)

\* a tree of four vertices whose root has a child with two children
TreeWitness ==
    /\ comp = "graph" /\ tree # None /\ tree.status = "Ok"
    /\ input.n_vert = 4
    /\ \E v \in Idx(4) :
          /\ TreeIndexed_parent(tree, v) = Some(input.root)
          /\ Len(children(tree, v)) = 2

\* Some edge within reach of v is a self-loop or is given twice.
DegenerateCycleNear(v, edges) ==
    \E k \in 1 .. Len(edges) :
        /\ edges[k][1] \in Component(v, edges)
        /\ \/ edges[k][1] = edges[k][2]
           \/ \E j \in 1 .. Len(edges) :
                 j # k /\ {edges[j][1], edges[j][2]} = {edges[k][1], edges[k][2]}

\* C19: when a vertex reachable from the source, the source included,
\* carries a self-loop or a duplicated edge, cycle_found() is true and
\* TreeIndexed::new returns Err, not a tree and not a panic.
DegenerateCyclesFound ==
    (comp = "graph" /\ DegenerateCycleNear(input.root, input.edges)) =>
        /\ dfs # None => cycle_found(dfs)
        /\ tree # None => tree.status = "Err"

\* =============================================== specification: LCA
\* The vertices on the parent chain from v up to the root, v included.
RECURSIVE AncestorsOrSelf(_, _)
AncestorsOrSelf(t, v) ==
    IF v = t.root THEN {v} ELSE {v} \cup AncestorsOrSelf(t, t.parent[v])

Depth(t, v) == Cardinality(AncestorsOrSelf(t, v)) - 1

\* The deepest vertex that is an ancestor-or-self of both v and u.
LowestCommonAncestor(t, v, u) ==
    LET common == AncestorsOrSelf(t, v) \cap AncestorsOrSelf(t, u)
        deepest == CHOOSE d \in {Depth(t, b) : b \in common} :
                       \A b \in common : Depth(t, b) <= d
    IN  CHOOSE a \in common : Depth(t, a) = deepest

\* Every TreeIndexed that TreeIndexed::new builds over n vertices: from
\* every tree's edge list in every order (written smaller endpoint first, as
\* in InitGraph) and for every root.
Trees(n) ==
    {t \in {TreeIndexed_new(StaticGraph_new(n, es), r) :
               es \in [1 .. (n - 1) -> {e \in Idx(n) \X Idx(n) : e[1] < e[2]}],
               r \in Idx(n)} :
        t.status = "Ok"}

InitLca ==
    /\ comp = "lca"
    /\ \E n \in 1 .. MaxTree :
         \E t \in Trees(n) :
           \E qs \in SeqUpTo(Idx(n) \X Idx(n), Min(MaxQueries, MaxLcaInput - n)) :
             /\ tree = t
             /\ input = [n_vert |-> n, edges |-> <<>>, root |-> t.root,
                         queries |-> qs]
             /\ lca = LcaOffline_start(t, qs)
    /\ graph = None /\ dfs = None
    /\ djsu = None /\ rooted = None /\ related = {} /\ merges = 0
    /\ last = NoCall
    /\ sort = None

\* One iteration of the main loop of LcaOffline::new, for the next vertex
\* of the postorder.
LcaStep ==
    /\ comp = "lca" /\ lca.pc = "loop"
    /\ lca' = LcaOffline_step(lca, tree)
    /\ UNCHANGED <<comp, djsu, related, merges, rooted, input, graph, dfs, tree, last, sort>>

NextLca == LcaStep

SpecLca == InitLca /\ [][NextLca]_vars

\* The unordered pair {v,u} occurs in the query batch.
Queried(v, u) ==
    \E k \in 1 .. Len(input.queries) :
        input.queries[k] = <<v, u>> \/ input.queries[k] = <<u, v>>

\* C1: for every queried pair, in either argument order, ancestor returns
\* the lowest common ancestor of the two vertices in the rooted tree.
LcaIsLowestCommonAncestor ==
    (comp = "lca" /\ lca.pc = "done") =>
        \A k \in 1 .. Len(input.queries) :
            LET v == input.queries[k][1]
                u == input.queries[k][2]
                a == Ok(LowestCommonAncestor(tree, v, u))
            IN  /\ ancestor(lca.result, v, u) = a
                /\ ancestor(lca.result, u, v) = a

\* two leaves of a star were queried, in both orientations, and answered
\* by the centre
LcaWitness ==
    /\ comp = "lca" /\ lca.pc = "done" /\ input.n_vert = 3
    /\ \E v, u \in Idx(3) :
          /\ v # u /\ v # input.root /\ u # input.root
          /\ input.queries = <<<<v, u>>, <<u, v>>>>
          /\ tree.parent[v] = input.root /\ tree.parent[u] = input.root
          /\ ancestor(lca.result, v, u) = Ok(input.root)

\* C2: ancestor(v,u) is Ok exactly when the unordered pair {v,u} was in the
\* query batch, Err otherwise (self-pairs included), and ancestor(v,u) and
\* ancestor(u,v) agree.
AncestorOkIffQueried ==
    (comp = "lca" /\ lca.pc = "done") =>
        \A v, u \in Idx(input.n_vert) :
            LET a == ancestor(lca.result, v, u)
            IN  /\ (a # Err) = Queried(v, u)
                /\ a # Err => a[1] = "Ok"
                /\ a = ancestor(lca.result, u, v)

\* a self-pair and a proper pair were queried; another self-pair was not
AncestorWitness ==
    /\ comp = "lca" /\ lca.pc = "done" /\ input.n_vert = 3
    /\ \E v, u \in Idx(3) :
          /\ v > u
          /\ input.queries = <<<<v, u>>, <<v, v>>>>
          /\ ancestor(lca.result, u, v) # Err
          /\ ancestor(lca.result, v, v) = Ok(v)
          /\ ancestor(lca.result, u, u) = Err

\* The nearest ancestor-or-self of u that is not in merged.
RECURSIVE NearestUnmerged(_, _, _)
NearestUnmerged(t, u, merged) ==
    IF u \notin merged THEN u ELSE NearestUnmerged(t, t.parent[u], merged)

\* The vertices the loop has dealt with before position k of the postorder;
\* all of them but the root were united into their parents.
MergedBefore(k) == {lca.postorder[j] : j \in 1 .. (k - 1)} \ {tree.root}

\* The position of v in the postorder.
Pos(v) == CHOOSE k \in 1 .. Len(lca.postorder) : lca.postorder[k] = v

\* C17: between the iterations of the loop of LcaOffline::new, and at the
\* moment a vertex v has been marked visited, find(u) is for every visited
\* u the nearest ancestor-or-self of u not yet united into its parent: v
\* itself for u in the subtree of v, and otherwise a proper ancestor of u
\* that is not visited yet.  Every vertex but the root is united into its
\* parent exactly once, after its pending pairs were answered, so that each
\* recorded answer is the value find had when the later vertex of the pair
\* was visited.
LcaFindIsNearestUnmerged ==
    comp = "lca" =>
        LET done == {lca.postorder[j] : j \in 1 .. (lca.i - 1)}
            merged == done \ {tree.root}
        IN  /\ \A u \in Idx(input.n_vert) : lca.visited[u] = (u \in done)
            /\ DjsuRooted_n_components(lca.djsu)
                  = input.n_vert - Cardinality(merged)
            /\ \A u \in done :
                  LET a == DjsuRooted_find(lca.djsu, u).ret
                  IN  /\ a = NearestUnmerged(tree, u, merged)
                      /\ lca.pc = "loop" => a # u /\ ~lca.visited[a]
                      /\ lca.pc = "done" => a = tree.root
            /\ lca.pc = "loop" =>
                  LET v == lca.postorder[lca.i]
                      mid == LcaOffline_visit(lca, v)
                  IN  /\ v \notin done
                      /\ Range(children(tree, v)) \subseteq done
                      /\ \A u \in done \cup {v} :
                            LET a == DjsuRooted_find(mid.djsu, u).ret
                            IN  /\ a = NearestUnmerged(tree, u, merged)
                                /\ IF v \in AncestorsOrSelf(tree, u)
                                   THEN a = v
                                   ELSE a # u /\ ~mid.visited[a]
            /\ \A k \in 1 .. Len(input.queries) :
                  LET x == input.queries[k][1]
                      y == input.queries[k][2]
                      u == IF Pos(x) <= Pos(y) THEN x ELSE y
                      w == IF Pos(x) <= Pos(y) THEN y ELSE x
                  IN  (x \in done /\ y \in done) =>
                          /\ order(u, w) \in DOMAIN lca.result
                          /\ lca.result[order(u, w)]
                                = NearestUnmerged(tree, u, MergedBefore(Pos(w)))

\* on a path of three vertices the two lower ones were visited and united
\* upwards, the lowest was queried, and find of the lowest is the root,
\* which is still to be visited
LcaFindWitness ==
    /\ comp = "lca" /\ lca.pc = "loop" /\ input.n_vert = 3 /\ lca.i = 3
    /\ \E u \in Idx(3) :
          /\ u # tree.root /\ tree.parent[u] # tree.root
          /\ tree.parent[tree.parent[u]] = tree.root
          /\ lca.visited[u] /\ lca.visited[tree.parent[u]]
          /\ ~lca.visited[tree.root]
          /\ Queried(u, tree.parent[u])
          /\ DjsuRooted_find(lca.djsu, u).ret = tree.root

\* =================================================== specification: DSU
\* The nodes on the parent-pointer chain from x up to its representative,
\* both included.
RECURSIVE Chain(_, _)
Chain(r, x) == IF r[x] = x THEN {x} ELSE {x} \cup Chain(r, r[x])

InitDsu ==
    /\ comp = "dsu"
    /\ \E n \in 0 .. MaxSize : djsu = DjsuIndex_new(n)
    /\ related = {<<i, i>> : i \in DOMAIN djsu.root}
    /\ merges = 0
    /\ rooted = None
    /\ input = None /\ graph = None /\ dfs = None /\ tree = None /\ lca = None
    /\ last = NoCall
    /\ sort = None

Find(x) ==
    /\ comp = "dsu"
    /\ LET f == DjsuIndex_find(djsu, x)
       IN  /\ djsu' = f.d
           /\ last' = [op |-> "find", a |-> x, b |-> x, ret |-> f.ret,
                       pre |-> djsu.count, same |-> TRUE,
                       depth |-> Cardinality(Chain(djsu.root, x)) - 1]
    /\ UNCHANGED <<comp, related, merges, rooted, input, graph, dfs, tree, lca, sort>>

Connected(a, b) ==
    /\ comp = "dsu"
    /\ LET c == DjsuIndex_connected(djsu, a, b)
       IN  /\ djsu' = c.d
           /\ last' = [op |-> "connected", a |-> a, b |-> b, ret |-> c.ret,
                       pre |-> djsu.count, same |-> (<<a, b>> \in related)]
    /\ UNCHANGED <<comp, related, merges, rooted, input, graph, dfs, tree, lca, sort>>

Union(a, b) ==
    /\ comp = "dsu"
    /\ LET u == DjsuIndex_union(djsu, a, b)
       IN  /\ djsu' = u.d
           /\ last' = [op |-> "union", a |-> a, b |-> b, ret |-> u.ret,
                       pre |-> djsu.count, same |-> (<<a, b>> \in related)]
    /\ related' = Unite(related, a, b)
    /\ merges' = IF <<a, b>> \in related THEN merges ELSE merges + 1
    /\ UNCHANGED <<comp, rooted, input, graph, dfs, tree, lca, sort>>

NextDsu ==
    \/ \E x \in DOMAIN djsu.root : Find(x)
    \/ \E a, b \in DOMAIN djsu.root : Connected(a, b)
    \/ \E a, b \in DOMAIN djsu.root : Union(a, b)

SpecDsu == InitDsu /\ [][NextDsu]_vars

\* C4: connected(a,b) is true exactly when a and b are related by the
\* equivalence closure of the pairs passed to union so far; it is therefore
\* an equivalence relation, and it always equals find(a) == find(b).
ConnectedIsUnionClosure ==
    comp = "dsu" =>
        LET D == DOMAIN djsu.root
            conn(a, b) == DjsuIndex_connected(djsu, a, b).ret
        IN  /\ \A a, b \in D :
                  /\ conn(a, b) = (<<a, b>> \in related)
                  /\ conn(a, b) = (DjsuIndex_find(djsu, a).ret
                                      = DjsuIndex_find(djsu, b).ret)
            /\ \A a \in D : conn(a, a)
            /\ \A a, b \in D : conn(a, b) => conn(b, a)
            /\ \A a, b, c \in D : conn(a, b) /\ conn(b, c) => conn(a, c)
            /\ last.op = "connected" => last.ret = last.same

\* a connected() call answered TRUE for two elements joined only through
\* a third one, while some other element is still apart
ConnectedWitness ==
    /\ comp = "dsu"
    /\ last.op = "connected" /\ last.ret = TRUE /\ last.a # last.b
    /\ merges >= 2
    /\ \E c \in DOMAIN djsu.root : <<last.a, c>> \notin related

\* C5: n_components() equals n minus the number of unions whose arguments
\* were in different components when called; a union of an already
\* connected pair, a find and a connected leave it unchanged.
ComponentsCountMerges ==
    comp = "dsu" =>
        /\ n_components(djsu) = Cardinality(DOMAIN djsu.root) - merges
        /\ last.op \in {"find", "connected"} => n_components(djsu) = last.pre
        /\ last.op = "union" /\ last.same => n_components(djsu) = last.pre
        /\ last.op = "union" /\ ~last.same => n_components(djsu) = last.pre - 1

\* a union of two distinct, already connected elements after two merges
ComponentsWitness ==
    /\ comp = "dsu"
    /\ last.op = "union" /\ last.same /\ last.a # last.b
    /\ merges >= 2 /\ n_components(djsu) >= 2

\* C11 as stated: union(a,b) on an already connected pair returns the shared
\* representative and leaves root, height and count as they were.
UnionConnectedNoMutation ==
    [][(comp = "dsu" /\ last'.op = "union" /\ last'.same) =>
          /\ last'.ret = FindWalk(djsu.root, last'.a)
          /\ last'.ret = FindWalk(djsu.root, last'.b)
          /\ djsu' = djsu]_vars

\* C11, amended: union(a,b) on an already connected pair returns the shared
\* representative, leaves height and count as they were and merges nothing;
\* the only parent pointers it changes are those of the nodes on the chains
\* of a and b, which the two find calls point at the representative.
UnionConnectedOnlyCompresses ==
    [][(comp = "dsu" /\ last'.op = "union" /\ last'.same) =>
          LET D == DOMAIN djsu.root
              r == FindWalk(djsu.root, last'.a)
              onpath == Chain(djsu.root, last'.a) \cup Chain(djsu.root, last'.b)
          IN  /\ last'.ret = r
              /\ r = FindWalk(djsu.root, last'.b)
              /\ djsu'.height = djsu.height
              /\ djsu'.count = djsu.count
              /\ \A i \in D :
                    djsu'.root[i] = IF i \in onpath THEN r ELSE djsu.root[i]
              /\ \A i \in D :
                    FindWalk(djsu'.root, i) = FindWalk(djsu.root, i)]_vars

\* a union of two distinct, already connected elements, neither of them the
\* representative, in a component of at least four
UnionConnectedWitness ==
    /\ comp = "dsu"
    /\ last.op = "union" /\ last.same /\ last.a # last.b
    /\ last.ret # last.a /\ last.ret # last.b
    /\ djsu.root[last.a] = last.ret /\ djsu.root[last.b] = last.ret
    /\ \E c \in DOMAIN djsu.root :
          c \notin {last.a, last.b, last.ret} /\ djsu.root[c] = last.ret

\* C16: find(x) returns the representative r at the end of x's chain of
\* parent pointers and points every node of that chain directly at r; all
\* other parent pointers, the heights, the count and the partition into
\* components stay as they were, and a second find(x) changes nothing.
FindCompressesChain ==
    [][(comp = "dsu" /\ last'.op = "find") =>
          LET D == DOMAIN djsu.root
              x == last'.a
              r == CHOOSE e \in Chain(djsu.root, x) : djsu.root[e] = e
              again == DjsuIndex_find(djsu', x)
          IN  /\ last'.ret = r
              /\ \A i \in D :
                    djsu'.root[i] = IF i \in Chain(djsu.root, x) THEN r
                                    ELSE djsu.root[i]
              /\ djsu'.height = djsu.height
              /\ djsu'.count = djsu.count
              /\ \A i \in D :
                    Chain(djsu'.root, i) \cap {e \in D : djsu'.root[e] = e}
                        = Chain(djsu.root, i) \cap {e \in D : djsu.root[e] = e}
              /\ again.d = djsu' /\ again.ret = r]_vars

\* a find has just returned for an element that was three links away from
\* its representative and now points straight at it
FindWitness ==
    /\ comp = "dsu"
    /\ last.op = "find" /\ last.depth = 3
    /\ last.ret # last.a /\ djsu.root[last.a] = last.ret

\* C12: union(a,b) on two distinct components with representatives ra and
\* rb attaches the one with the smaller recorded height under the other and
\* returns the latter; on a tie it attaches rb under ra, returns ra and
\* increases the height of ra, and of no other entry, by exactly one.
UnionByHeight ==
    [][(comp = "dsu" /\ last'.op = "union" /\ ~last'.same) =>
          LET ra == FindWalk(djsu.root, last'.a)
              rb == FindWalk(djsu.root, last'.b)
          IN  IF djsu.height[ra] < djsu.height[rb]
              THEN /\ djsu'.root[ra] = rb /\ djsu'.root[rb] = rb
                   /\ last'.ret = rb
              ELSE IF djsu.height[ra] > djsu.height[rb]
              THEN /\ djsu'.root[rb] = ra /\ djsu'.root[ra] = ra
                   /\ last'.ret = ra
              ELSE /\ djsu'.root[rb] = ra /\ djsu'.root[ra] = ra
                   /\ last'.ret = ra
                   /\ djsu'.height = [djsu.height EXCEPT ![ra] = @ + 1]]_vars

\* Following the parent pointers from x arrives at a self-loop within fuel
\* steps.
RECURSIVE WalkEnds(_, _, _)
WalkEnds(r, x, fuel) ==
    IF r[x] = x THEN TRUE
    ELSE IF fuel = 0 THEN FALSE
    ELSE WalkEnds(r, r[x], fuel - 1)

\* C18: in every state reachable from new(n) by find, connected and union
\* calls, the parent pointers have no cycle but the self-loops of the
\* representatives, so the walk of find ends for every x < n, and count is
\* the number of indices i with root[i] == i.
RootIsForest ==
    comp = "dsu" =>
        LET D == DOMAIN djsu.root
        IN  /\ \A x \in D : djsu.root[x] \in D
            /\ \A x \in D : WalkEnds(djsu.root, x, Cardinality(D))
            /\ djsu.count = Cardinality({i \in D : djsu.root[i] = i})

\* two components are left, in one of which an element is two links away
\* from its representative
RootIsForestWitness ==
    /\ comp = "dsu" /\ djsu.count = 2 /\ merges = 2
    /\ \E x \in DOMAIN djsu.root :
          djsu.root[djsu.root[x]] # djsu.root[x]

\* ============================================ specification: DjsuRooted
InitRooted ==
    /\ comp = "rooted"
    /\ \E n \in 0 .. MaxRooted : rooted = DjsuRooted_new(n)
    /\ djsu = None
    /\ related = {}
    /\ merges = 0
    /\ input = None /\ graph = None /\ dfs = None /\ tree = None /\ lca = None
    /\ last = NoCall
    /\ sort = None

RootedFind(x) ==
    /\ comp = "rooted"
    /\ LET f == DjsuRooted_find(rooted, x)
       IN  /\ rooted' = f.d
           /\ last' = [op |-> "find", a |-> x, b |-> x, ret |-> f.ret,
                       pre |-> f.ret, same |-> TRUE]
    /\ UNCHANGED <<comp, djsu, related, merges, input, graph, dfs, tree, lca, sort>>

RootedConnected(a, b) ==
    /\ comp = "rooted"
    /\ LET c == DjsuRooted_connected(rooted, a, b)
       IN  /\ rooted' = c.d
           /\ last' = [op |-> "connected", a |-> a, b |-> b, ret |-> c.ret,
                       pre |-> DjsuRooted_find(rooted, a).ret, same |-> c.ret]
    /\ UNCHANGED <<comp, djsu, related, merges, input, graph, dfs, tree, lca, sort>>

RootedUnion(major, minor) ==
    /\ comp = "rooted"
    /\ LET u == DjsuRooted_union(rooted, major, minor)
       IN  /\ rooted' = u.d
           /\ last' = [op |-> "union", a |-> major, b |-> minor, ret |-> u.ret,
                       pre |-> DjsuRooted_find(rooted, major).ret,
                       same |-> DjsuRooted_connected(rooted, major, minor).ret]
    /\ UNCHANGED <<comp, djsu, related, merges, input, graph, dfs, tree, lca, sort>>

NextRooted ==
    \/ \E x \in DOMAIN rooted.root : RootedFind(x)
    \/ \E a, b \in DOMAIN rooted.root : RootedConnected(a, b)
    \/ \E a, b \in DOMAIN rooted.root : RootedUnion(a, b)

SpecRooted == InitRooted /\ [][NextRooted]_vars

\* C3: union(major, minor) returns r, the value find(major) had just before
\* the call, and afterwards find(major) == find(minor) == r.
RootedUnionKeepsMajorRoot ==
    (comp = "rooted" /\ last.op = "union") =>
        /\ last.ret = last.pre
        /\ DjsuRooted_find(rooted, last.a).ret = last.pre
        /\ DjsuRooted_find(rooted, last.b).ret = last.pre

\* ============================ specification: freshly constructed DSUs
\* A DjsuIndex (UnionFind has the same code) and a DjsuRooted of the same
\* size, queried but never united.
InitFresh ==
    /\ comp = "fresh"
    /\ \E n \in 0 .. MaxFresh :
          /\ input = [count |-> n]
          /\ djsu = DjsuIndex_new(n)
          /\ rooted = DjsuRooted_new(n)
    /\ related = {} /\ merges = 0
    /\ graph = None /\ dfs = None /\ tree = None /\ lca = None
    /\ last = NoCall
    /\ sort = None

FreshFind(x) ==
    /\ comp = "fresh"
    /\ LET f == DjsuIndex_find(djsu, x)
       IN  /\ djsu' = f.d
           /\ last' = [op |-> "find", a |-> x, b |-> x, ret |-> f.ret,
                       pre |-> djsu.count, same |-> TRUE]
    /\ UNCHANGED <<comp, related, merges, rooted, input, graph, dfs, tree, lca, sort>>

FreshConnected(a, b) ==
    /\ comp = "fresh"
    /\ LET c == DjsuIndex_connected(djsu, a, b)
       IN  /\ djsu' = c.d
           /\ last' = [op |-> "connected", a |-> a, b |-> b, ret |-> c.ret,
                       pre |-> djsu.count, same |-> (a = b)]
    /\ UNCHANGED <<comp, related, merges, rooted, input, graph, dfs, tree, lca, sort>>

FreshRootedFind(x) ==
    /\ comp = "fresh"
    /\ LET f == DjsuRooted_find(rooted, x)
       IN  /\ rooted' = f.d
           /\ last' = [op |-> "rooted.find", a |-> x, b |-> x, ret |-> f.ret,
                       pre |-> DjsuRooted_n_components(rooted), same |-> TRUE]
    /\ UNCHANGED <<comp, djsu, related, merges, input, graph, dfs, tree, lca, sort>>

FreshRootedConnected(a, b) ==
    /\ comp = "fresh"
    /\ LET c == DjsuRooted_connected(rooted, a, b)
       IN  /\ rooted' = c.d
           /\ last' = [op |-> "rooted.connected", a |-> a, b |-> b,
                       ret |-> c.ret,
                       pre |-> DjsuRooted_n_components(rooted), same |-> (a = b)]
    /\ UNCHANGED <<comp, djsu, related, merges, input, graph, dfs, tree, lca, sort>>

NextFresh ==
    \/ \E x \in Idx(input.count) : FreshFind(x)
    \/ \E a, b \in Idx(input.count) : FreshConnected(a, b)
    \/ \E x \in Idx(input.count) : FreshRootedFind(x)
    \/ \E a, b \in Idx(input.count) : FreshRootedConnected(a, b)

SpecFresh == InitFresh /\ [][NextFresh]_vars

\* C15: a freshly constructed DjsuIndex, UnionFind or DjsuRooted of size n
\* has n_components() == n and find(i) == i for every i in 0..n, and no two
\* distinct elements are connected.
FreshIsDiscrete ==
    comp = "fresh" =>
        LET n == input.count
        IN  /\ n_components(djsu) = n
            /\ DjsuRooted_n_components(rooted) = n
            /\ DOMAIN djsu.root = Idx(n) /\ DOMAIN rooted.root = Idx(n)
            /\ \A i \in Idx(n) :
                  /\ DjsuIndex_find(djsu, i).ret = i
                  /\ DjsuRooted_find(rooted, i).ret = i
            /\ \A a, b \in Idx(n) :
                  a # b => /\ ~DjsuIndex_connected(djsu, a, b).ret
                           /\ ~DjsuRooted_connected(rooted, a, b).ret
            /\ last.op \in {"find", "rooted.find"} => last.ret = last.a
            /\ last.op \in {"connected", "rooted.connected"} =>
                  last.ret = (last.a = last.b)
            /\ last.op # "new" => last.pre = n

\* the last two of six elements of a fresh DjsuRooted were found apart
FreshWitness ==
    /\ comp = "fresh" /\ input.count = 6
    /\ last.op = "rooted.connected" /\ last.a = 4 /\ last.b = 5
    /\ last.ret = FALSE
    /\ DjsuIndex_find(djsu, 5).ret = 5

\* ============================================= specification: mergesort
InitSort ==
    /\ comp = "sort"
    /\ \E xs \in SeqUpTo(0 .. MaxSortVal, MaxSortLen) :
          /\ input = [array |-> xs]
          /\ sort = mergesort_start(xs)
    /\ graph = None /\ dfs = None /\ tree = None /\ lca = None
    /\ djsu = None /\ rooted = None /\ related = {} /\ merges = 0
    /\ last = NoCall

\* if array.len() < 2 { return; } let mut aux = ...
SortEnter ==
    /\ comp = "sort" /\ sort.pc = "entry"
    /\ sort' = mergesort_enter(sort)
    /\ UNCHANGED <<comp, djsu, related, merges, rooted, input, graph, dfs, tree, lca, last>>

\* while step < primary.len() { ... }
SortPass ==
    /\ comp = "sort" /\ sort.pc = "loop" /\ sort.step < Len(sort.array)
    /\ sort' = mergesort_pass(sort)
    /\ UNCHANGED <<comp, djsu, related, merges, rooted, input, graph, dfs, tree, lca, last>>

\* the loop is left and the result copied back if it is in aux
SortFinish ==
    /\ comp = "sort" /\ sort.pc = "loop" /\ sort.step >= Len(sort.array)
    /\ sort' = mergesort_finish(sort)
    /\ UNCHANGED <<comp, djsu, related, merges, rooted, input, graph, dfs, tree, lca, last>>

NextSort == SortEnter \/ SortPass \/ SortFinish

SpecSort == InitSort /\ [][NextSort]_vars

\* The list xs is non-decreasing.
NonDecreasing(xs) == \A i \in 1 .. (Len(xs) - 1) : xs[i] <= xs[i + 1]

\* The lists xs and ys hold the same elements the same number of times.
IsPermutation(xs, ys) ==
    /\ Len(xs) = Len(ys)
    /\ \A x \in Range(xs) \cup Range(ys) : Occurrences(xs, x) = Occurrences(ys, x)

\* The sorted list with x put in its place.
RECURSIVE InsertSorted(_, _)
InsertSorted(xs, x) ==
    IF xs = <<>> THEN <<x>>
    ELSE IF x <= Head(xs) THEN <<x>> \o xs
    ELSE <<Head(xs)>> \o InsertSorted(Tail(xs), x)

\* A reference sort (insertion sort).
RECURSIVE ReferenceSort(_)
ReferenceSort(xs) ==
    IF xs = <<>> THEN <<>> ELSE InsertSorted(ReferenceSort(Tail(xs)), Head(xs))

\* The list xs back to front.
Reverse(xs) == [i \in 1 .. Len(xs) |-> xs[Len(xs) + 1 - i]]

\* What mergesort leaves in the array xs.
RECURSIVE mergesort_run(_)
mergesort_run(st) ==
    IF st.pc = "entry" THEN mergesort_run(mergesort_enter(st))
    ELSE IF st.pc = "loop"
    THEN IF st.step < Len(st.array) THEN mergesort_run(mergesort_pass(st))
         ELSE mergesort_run(mergesort_finish(st))
    ELSE st

mergesort(xs) == mergesort_run(mergesort_start(xs)).array

\* C13: after mergesort(array) the array is non-decreasing and equals the
\* reference sort of the input, for every length; the sorted and the
\* reversed sorted input give that same result.
MergesortSorts ==
    (comp = "sort" /\ sort.pc = "done") =>
        /\ NonDecreasing(sort.array)
        /\ sort.array = ReferenceSort(input.array)
        /\ mergesort(ReferenceSort(input.array)) = ReferenceSort(input.array)
        /\ mergesort(Reverse(ReferenceSort(input.array)))
               = ReferenceSort(input.array)

\* C14: the array after mergesort is a permutation of the input, and so are
\* both buffers after every merge_intervals pass, the pass that leaves a
\* tail chunk without partner included.
MergesortPermutes ==
    comp = "sort" =>
        /\ sort.pc # "panic"
        /\ IsPermutation(sort.array, input.array)
        /\ sort.pc = "loop" => IsPermutation(sort.aux, input.array)
        /\ (sort.pc = "done" /\ Len(input.array) >= 2) =>
               IsPermutation(sort.aux, input.array)

\* two passes over six elements are done, the second of which left a tail
\* chunk of two without partner, and both buffers differ from the input
MergesortPermutesWitness ==
    /\ comp = "sort" /\ sort.pc = "loop"
    /\ Len(input.array) = 6 /\ sort.step = 4
    /\ sort.array # input.array /\ sort.aux # input.array
    /\ sort.array # sort.aux

\* ======================================================== whole library
Init ==
    \/ InitDsu \/ InitRooted \/ InitFresh
    \/ InitStatic \/ InitGraph \/ InitLca \/ InitSort

Next ==
    \/ (comp = "dsu" /\ NextDsu)
    \/ (comp = "rooted" /\ NextRooted)
    \/ (comp = "static" /\ NextStatic)
    \/ (comp = "graph" /\ NextGraph)
    \/ (comp = "lca" /\ NextLca)
    \/ (comp = "sort" /\ NextSort)
    \/ (comp = "fresh" /\ NextFresh)

Spec == Init /\ [][Next]_vars

====
